---------------------------- MODULE Spec2Model ----------------------------
(***************************************************************************)
(* The Bayesian-optimisation experiment driver of worstsurge               *)
(* (src/adbo/exp.py): run_bayesopt_exp, the objective evaluator built by   *)
(* objective_f, the checkpoint callback and the resumability check         *)
(* run_exists, over an explicit model of the experiment directories.       *)
(*                                                                         *)
(* Numbers: a normalised coordinate x in [0,1] is held in halves           *)
(* (0, 1, 2 for 0, 0.5, 1); a physical input is held in tenths of its      *)
(* unit; an outcome (surge height) is held in whole metres.                *)
(***************************************************************************)
EXTENDS Integers, Sequences, FiniteSets, TLC

(***************************************************************************)
(* Bounds of the model.                                                    *)
(***************************************************************************)
\* most initial (Sobol) points one invocation asks for
MaxInit == 2
\* most adaptive steps one invocation asks for
MaxDaf == 2
\* most invocations of run_bayesopt_exp in one behaviour
MaxRuns == 2
\* most objective calls the invocations of one behaviour ask for in total
MaxCalls == 3

(***************************************************************************)
(* Inputs.                                                                 *)
(***************************************************************************)
\* kernel names the caller may pass: the default and one the code does not
\* know
KernelInputs == {"Matern52", "RBF"}
\* acquisition names the caller may pass: the default and one the code does
\* not know
DafInputs == {"mes", "pi"}
\* what acq_rule.acquisition_function can be when the callback reads it
AcquisitionFunctions == {"None", "surface"}
\* the two roots an experiment may be written under: the default and another
Roots == {"EXP_PATH", "elsewhere"}
\* constraint orders of length 1, 2 and 3 (the last is the default table)
Orders ==
    { <<"displacement">>,
      <<"angle", "displacement">>,
      <<"angle", "trans_speed", "displacement">> }
\* draws of np.random.normal(), in metres (7 + 4 is clipped)
Noise == {-2, 4}
\* maximum elevations the simulator may return, in metres
SimVals == {12}

Range(s) == {s[j] : j \in 1..Len(s)}

\* a point of the unit box, in halves: the centre, or a staircase 0, 0.5, 1
Centre(d) == [j \in 1..d |-> 1]
Staircase(d) == [j \in 1..d |-> (j - 1) % 3]
QueryPoints(d) == {Centre(d), Staircase(d)}

\* the initial designs the sampler may return: n points of a fixed sequence
\* that alternates between the two points; setup_tf(seed) fixes where the
\* sequence is entered
Skips == {0}
sample_sobol(n, d) ==
    { [k \in 1..n |-> IF (k + skip) % 2 = 1 THEN Centre(d) ELSE Staircase(d)] :
        skip \in Skips }

(***************************************************************************)
(* Program constants.                                                      *)
(***************************************************************************)
EXP_PATH == "EXP_PATH"
exp_name == "bo_test"
seed == 10
\* the stand-in's centre and clip value, min(7 + normal, 10)
StandInCentre == 7
StandInClip == 10

\* bounds of each dimension, in tenths of its unit
ConstraintMin(name) ==
    CASE name = "angle" -> -800
      [] name = "trans_speed" -> 0
      [] name = "displacement" -> -20
ConstraintMax(name) ==
    CASE name = "angle" -> 800
      [] name = "trans_speed" -> 150
      [] name = "displacement" -> 20

\* the units each constraint declares
ConstraintUnits(name) ==
    CASE name = "angle" -> "degrees"
      [] name = "trans_speed" -> "m s**-1"
      [] name = "displacement" -> "degrees_east"

\* physical = min + x * (max - min), x in halves, row by row
rescale_inverse(x, cons) ==
    [j \in 1..Len(cons.order) |->
        ConstraintMin(cons.order[j])
        + (x[j] * (ConstraintMax(cons.order[j]) - ConstraintMin(cons.order[j]))) \div 2]

VARIABLES
    \* arguments of run_bayesopt_exp that stay the same over the invocations
    kernel, daf, wrap_test, root_exp_direc, constraints,
    \* arguments chosen at each invocation
    init_steps, daf_steps,
    \* the file system: the experiment directory under each root, and logs/
    fs, tensorboard,
    \* position of the driver
    pc, phase, runs,
    \* closure state of objective_f
    call_number, output,
    \* locals of obj
    batch, i, real_result, returned_results, wrap_cfg,
    \* what the optimizer holds
    dataset, step,
    \* closure state of gp_model_callback_maker
    call, ypred_list, ystd_list, acq_list,
    \* acq_rule.acquisition_function: "None" or "surface"
    acquisition_function,
    \* history: objective evaluations and simulator invocations of this invocation
    nevals, nsim,
    \* history: objective calls asked for by the invocations so far
    asked,
    \* history: the output directory held nothing when this invocation began
    fresh,
    \* idealized_tc_observe: its argument, its position, the run folder, the
    \* slurm job, the value read, and the steps of this call in their order
    obs_cfg, obs_pc, run_dir, job, maxele, trace, obs_calls,
    \* bisection: arguments, locals, position, counters of loop iterations and
    \* of evaluations of f, and the value returned
    func, left, right, tol, fleft, fright, bis_pc, iters, nf, ret, left0, right0

cfgvars == <<kernel, daf, wrap_test, root_exp_direc, constraints>>
runvars == <<init_steps, daf_steps>>
objvars == <<call_number, output, batch, i, real_result, returned_results,
            wrap_cfg>>
cbvars == <<call, ypred_list, ystd_list, acq_list>>
obsvars == <<obs_cfg, obs_pc, run_dir, job, maxele, trace, obs_calls>>
bisvars == <<func, left, right, tol, fleft, fright, bis_pc, iters, nf, ret, left0,
            right0>>
subvars == <<obsvars, bisvars>>
drivervars == <<kernel, daf, wrap_test, root_exp_direc, constraints, init_steps,
               daf_steps, fs, tensorboard, pc, phase, runs, call_number, output,
               batch, i, real_result, returned_results, wrap_cfg, dataset, step,
               call, ypred_list, ystd_list, acq_list, acquisition_function,
               nevals, nsim, asked, fresh>>
vars == <<kernel, daf, wrap_test, root_exp_direc, constraints, init_steps,
          daf_steps, fs, tensorboard, pc, phase, runs, call_number, output,
          batch, i, real_result, returned_results, wrap_cfg, dataset, step, call,
          ypred_list, ystd_list, acq_list, acquisition_function, nevals, nsim,
          asked, fresh, obs_cfg, obs_pc, run_dir, job, maxele, trace, obs_calls,
          func, left, right, tol, fleft, fright, bis_pc, iters, nf, ret, left0,
          right0>>

(***************************************************************************)
(* The file system.                                                        *)
(***************************************************************************)
EmptyMap == [k \in {} |-> 0]
NoFile == [present |-> FALSE, content |-> EmptyMap]
File(c) == [present |-> TRUE, content |-> c]

\* an experiment directory that does not exist
NoDir ==
    [ exists |-> FALSE,
      exp_dirs |-> {},          \* n for every subdirectory exp_{n:04}
      wrap_cfgs |-> {},         \* n for every exp_{n:04}/wrap_cfg.yaml
      experiments |-> NoFile,   \* experiments.json, the ledger
      bo_config |-> NoFile,     \* bo-config.json
      results |-> NoFile,       \* <exp_name>_results.nc
      gp_model_outputs |-> NoFile,  \* gp_model_outputs.nc
      checkpoints |-> 0 ]       \* snapshots saved by the CheckpointManager

\* os.makedirs(direc, exist_ok=True)
makedirs(D) == [D EXCEPT !.exists = TRUE]

\* os.listdir: the directory's entries, each with the kind of its name
listdir(D) ==
    {[kind |-> "exp_", n |-> n] : n \in D.exp_dirs}
    \cup (IF D.experiments.present THEN {[kind |-> "experiments.json", n |-> 0]} ELSE {})
    \cup (IF D.bo_config.present THEN {[kind |-> "bo-config.json", n |-> 0]} ELSE {})
    \cup (IF D.results.present THEN {[kind |-> "bo_test_results.nc", n |-> 0]} ELSE {})
    \cup (IF D.gp_model_outputs.present THEN {[kind |-> "gp_model_outputs.nc", n |-> 0]} ELSE {})
    \cup (IF D.checkpoints > 0 THEN {[kind |-> "checkpoint", n |-> 0]} ELSE {})

\* x.startswith("exp_")
startswith_exp(x) == x.kind = "exp_"


\* os.path.join(root, name)
join(root, name) == <<root, name>>

\* direc = os.path.join(root_exp_direc, exp_name)
direc == join(root_exp_direc, exp_name)

\* the configuration run_bayesopt_exp keeps and writes to bo-config.json
cfg(i_steps, d_steps) ==
    [ constraints |-> constraints,
      seed |-> seed,
      profile_name |-> "2025_new_orleans_profile_r4i1p1f1",
      exp_name |-> exp_name,
      init_steps |-> i_steps,
      daf_steps |-> d_steps,
      obs_lon |-> "NEW_ORLEANS.lon",
      obs_lat |-> "NEW_ORLEANS.lat",
      wrap_test |-> wrap_test,
      resolution |-> "mid",
      exp_dir |-> direc ]

\* a check that accepts at least num_runs numbered subdirectories
run_exists_AtLeast(name, num_runs) ==
    LET D == fs[join(EXP_PATH, name)] IN
    D.exists
    /\ Cardinality({x \in listdir(D) : startswith_exp(x)}) >= num_runs
    /\ D.experiments.present

\* whether the experiment has already been run
run_exists(name, num_runs) ==
    LET D == fs[join(EXP_PATH, name)] IN
    IF D.exists
    THEN IF Cardinality({x \in listdir(D) : startswith_exp(x)}) = num_runs
         THEN D.experiments.present
         ELSE FALSE
    ELSE FALSE

\* a temp_dir that only names the directory and does not make it
temp_dir_NameOnly(D, n) == D

\* temp_dir(): os.makedirs(os.path.join(exp_dir, f"exp_{call_number:04}"), exist_ok=True)
temp_dir(D, n) == [D EXCEPT !.exists = TRUE, !.exp_dirs = @ \cup {n}]

\* the configuration get_default_config() returns, a new object at each call:
\* the entries obj and idealized_tc_observe read or write
get_default_config ==
    [ name |-> "wrap_config.name",
      files |-> [ exp_path |-> join("wrap_config", "files.exp_path"),
                  run_folder |-> join(join("wrap_config", "files.exp_path"),
                                      "wrap_config.name"),
                  low_storage |-> FALSE ],
      tc |-> [k \in {"angle", "translation_speed", "profile_name", "impact_location"}
                 |-> [from |-> "wrap_config", value |-> 0]],
      adcirc |-> [ resolution |-> "wrap_config",
                   tide |-> FALSE,
                   attempted_observation_location |-> "wrap_config" ] ]

\* inputs = {name: float(real_queries[i][j]) for j, name in enumerate(order)}
Inputs(real_query, order) ==
    [k \in Range(order) |->
        real_query[CHOOSE j \in 1..Len(order) :
                      order[j] = k /\ \A l \in (j + 1)..Len(order) : order[l] # k]]

\* a row that writes every input under its own name
TrackKey_PassThrough(inp) == inp

\* the entry of wrap_cfg.tc an input other than displacement is written to
TrackKey(inp) == IF inp = "trans_speed" THEN "translation_speed" ELSE inp

\* wrap_cfg as obj has it when the objective is invoked for a row: the base
\* configuration, the row's directory, the run's settings and the inputs
RowConfig(tmp_dir, inputs) ==
    LET base == get_default_config
        track == {inp \in DOMAIN inputs : inp # "displacement"}
        keys == {TrackKey(inp) : inp \in track}
        tc == [k \in DOMAIN base.tc \cup keys |->
                 IF k \in keys
                 THEN [from |-> "inputs",
                       value |-> inputs[CHOOSE inp \in track : TrackKey(inp) = k]]
                 ELSE IF k = "profile_name"
                 THEN [from |-> "cfg", value |-> "2025_new_orleans_profile_r4i1p1f1"]
                 ELSE IF k = "impact_location" /\ "displacement" \in DOMAIN inputs
                 THEN [from |-> "inputs",
                       value |-> <<[base |-> "NEW_ORLEANS.lon",
                                    plus |-> inputs["displacement"]],
                                   "NEW_ORLEANS.lat">>]
                 ELSE base.tc[k]]
    IN [base EXCEPT !.files.run_folder = tmp_dir,
                    !.files.low_storage = TRUE,
                    !.tc = tc,
                    !.adcirc.attempted_observation_location =
                        <<"NEW_ORLEANS.lon", "NEW_ORLEANS.lat">>,
                    !.adcirc.resolution = "mid"]

\* idealized_tc_observe's first statement: the run folder the simulator
\* works in and reads maxele.63.nc from
RunFolder(c) == [c EXCEPT !.files.run_folder = join(c.files.exp_path, c.name)]

\* an entry that reads the query from its far end
LedgerEntry_Reversed(tmp, real_query, result, order) ==
    [k \in {"", "res"} \cup Range(order) |->
        IF k \in Range(order)
        THEN real_query[Len(order) + 1 - (CHOOSE j \in 1..Len(order) : order[j] = k)]
        ELSE IF k = "res" THEN result ELSE tmp]

\* an entry without the outcome
LedgerEntry_NoRes(tmp, real_query, result, order) ==
    [k \in {""} \cup Range(order) |->
        IF k \in Range(order)
        THEN real_query[CHOOSE j \in 1..Len(order) : order[j] = k]
        ELSE tmp]

\* the dictionary add_query_to_output stores under output[call_number]:
\* "" and "res" first, then one key per name of the order (a later key wins)
LedgerEntry(tmp, real_query, result, order) ==
    [k \in {"", "res"} \cup Range(order) |->
        IF k \in Range(order)
        THEN real_query[CHOOSE j \in 1..Len(order) :
                           order[j] = k /\ \A l \in (j + 1)..Len(order) : order[l] # k]
        ELSE IF k = "res" THEN result ELSE tmp]

\* output[n] = entry
SetKey(map, n, entry) ==
    [k \in (DOMAIN map) \cup {n} |-> IF k = n THEN entry ELSE map[k]]

\* a stand-in without the clip
StandIn_NoClip(z) == StandInCentre + z

\* min(7 + np.random.normal(), 10)
StandIn(z) == IF StandInCentre + z < StandInClip THEN StandInCentre + z ELSE StandInClip

\* the sign flip of the value handed to the optimizer
Flip(r) == 0 - r

KnownKernels == {"Matern52", "Matern32", "SE"}
KnownDafs == {"mes", "ei", "ucb"}

\* a callback that asks the loop to stop
gp_model_callback_return_Stop == TRUE

\* the value gp_model_callback returns: False means don't stop
gp_model_callback_return == FALSE

\* an evaluator that takes up the ledger an earlier run left on disk
objective_f_output_Resumed == fs[direc].experiments.content

\* output = {} in objective_f
objective_f_output == EmptyMap

\* call_number = -1 in objective_f
objective_f_call_number == -1

\* a counter that skips a number at every row
IncrementCall_Skip(n) == n + 2

\* call_number += 1
IncrementCall(n) == n + 1

Terminal == {"NotStarted", "Exists", "ConfigError", "SimError", "Finished"}

(***************************************************************************)
(* Initial state: nothing on disk, no invocation yet.                      *)
(***************************************************************************)
\* idealized_tc_observe not called
ObserveIdle ==
    /\ obs_cfg = [tide |-> FALSE, resolution |-> "mid", run_folder |-> "unset"]
    /\ obs_pc = "idle"
    /\ run_dir = [exists |-> FALSE, files |-> {}, zeta_max |-> 0]
    /\ job = "none"
    /\ maxele = 0
    /\ trace = <<>>
    /\ obs_calls = 0

\* bisection not called
BisectionIdle ==
    /\ func = [slope |-> 1, root2 |-> 0]
    /\ left = 0 /\ right = 0 /\ tol = 2
    /\ left0 = 0 /\ right0 = 0
    /\ fleft = 0 /\ fright = 0
    /\ bis_pc = "idle"
    /\ iters = 0
    /\ nf = 0
    /\ ret = [nan |-> FALSE, value |-> 0]

\* run_bayesopt_exp not yet invoked
DriverInit ==
    /\ kernel \in KernelInputs
    /\ daf \in DafInputs
    /\ wrap_test \in BOOLEAN
    /\ root_exp_direc \in Roots
    /\ constraints \in {[order |-> o] : o \in Orders}
    /\ init_steps = 1
    /\ daf_steps = 0
    /\ fs = [p \in {join(r, exp_name) : r \in Roots} |-> NoDir]
    /\ tensorboard = FALSE
    /\ pc = "NotStarted"
    /\ phase = "NotStarted"
    /\ runs = 0
    /\ call_number = objective_f_call_number
    /\ output = objective_f_output
    /\ batch = <<>>
    /\ i = 0
    /\ real_result = 0
    /\ returned_results = <<>>
    /\ dataset = <<>>
    /\ step = 0
    /\ call = 0
    /\ wrap_cfg = get_default_config
    /\ ypred_list = <<>>
    /\ ystd_list = <<>>
    /\ acq_list = <<>>
    /\ acquisition_function = "None"
    /\ nevals = 0
    /\ nsim = 0
    /\ asked = 0
    /\ fresh = TRUE

Init == DriverInit /\ ObserveIdle /\ BisectionIdle

(***************************************************************************)
(* run_bayesopt_exp, up to the call of the observer on the initial design. *)
(***************************************************************************)
\* the invocation, given what run_exists answered and the file system an
\* early return leaves behind
StartWith(i_steps, d_steps, complete, fs_on_return) ==
    /\ pc \in Terminal
    /\ runs < MaxRuns
    /\ runs' = runs + 1
    /\ init_steps' = i_steps
    /\ daf_steps' = d_steps
    /\ fresh' = (listdir(fs[direc]) = {})
    \* a new process: nothing in memory
    /\ call_number' = objective_f_call_number
    /\ output' = objective_f_output
    /\ i' = 0
    /\ real_result' = 0
    /\ returned_results' = <<>>
    /\ wrap_cfg' = get_default_config
    /\ dataset' = <<>>
    /\ step' = 0
    /\ call' = 0
    /\ ypred_list' = <<>>
    /\ ystd_list' = <<>>
    /\ acq_list' = <<>>
    /\ acquisition_function' = "None"
    /\ nevals' = 0
    /\ nsim' = 0
    /\ IF complete
       THEN \* print(f"Experiment {exp_name} already exists"); return
            /\ pc' = "Exists"
            /\ phase' = "Finished"
            /\ batch' = <<>>
            /\ fs' = fs_on_return
            /\ UNCHANGED <<tensorboard, asked>>
       ELSE \* makedirs, write_json(cfg), setup_tf, sample_sobol, objective_f
            /\ asked + i_steps + d_steps <= MaxCalls
            /\ asked' = asked + i_steps + d_steps
            /\ fs' = [fs EXCEPT ![direc] =
                        [makedirs(@) EXCEPT !.bo_config = File(cfg(i_steps, d_steps))]]
            /\ tensorboard' = TRUE
            /\ \E initial_query_points \in sample_sobol(i_steps, Len(constraints.order)) :
                  batch' = initial_query_points
            /\ pc' = "obj_loop"
            /\ phase' = "InitialDesign"
    /\ UNCHANGED <<subvars, cfgvars>>

\* a driver that writes the run configuration before it asks run_exists
Start_ConfigBeforeCheck(i_steps, d_steps) ==
    StartWith(i_steps, d_steps, run_exists(exp_name, i_steps + d_steps),
              [fs EXCEPT ![direc] =
                  [makedirs(@) EXCEPT !.bo_config = File(cfg(i_steps, d_steps))]])

Start(i_steps, d_steps) ==
    StartWith(i_steps, d_steps, run_exists(exp_name, i_steps + d_steps), fs)

(***************************************************************************)
(* obj: one row of the batch after another.                                *)
(***************************************************************************)
\* call_number += 1, the row's configuration, tmp_dir = temp_dir()
RowBegin ==
    /\ pc = "obj_loop"
    /\ i < Len(batch)
    /\ call_number' = IncrementCall(call_number)
    /\ fs' = [fs EXCEPT ![direc] = temp_dir(@, IncrementCall(call_number))]
    /\ wrap_cfg' = RowConfig(join(direc, IncrementCall(call_number)),
                             Inputs(rescale_inverse(batch[i + 1], constraints),
                                    constraints.order))
    /\ pc' = "obj_eval"
    /\ UNCHANGED <<subvars, cfgvars, runvars, tensorboard, phase, runs, output, batch, i,
                   real_result, returned_results, dataset, step, cbvars,
                   acquisition_function,
                   nevals, nsim, asked, fresh>>

\* cfg["wrap_test"]: the synthetic stand-in, and wrap_cfg.yaml in tmp_dir
RowStandIn ==
    /\ pc = "obj_eval"
    /\ wrap_test
    /\ \E z \in Noise : real_result' = StandIn(z)
    /\ fs' = [fs EXCEPT ![direc].wrap_cfgs = @ \cup {call_number}]
    /\ nevals' = nevals + 1
    /\ pc' = "obj_record"
    /\ UNCHANGED <<subvars, cfgvars, runvars, tensorboard, phase, runs, call_number,
                   output, batch, i, returned_results, wrap_cfg, dataset, step, cbvars,
                   acquisition_function,
                   nsim, asked, fresh>>

\* real_result = idealized_tc_observe(wrap_cfg), returning
RowSimulate ==
    /\ pc = "obj_eval"
    /\ ~wrap_test
    /\ \E v \in SimVals : real_result' = v
    /\ nevals' = nevals + 1
    /\ nsim' = nsim + 1
    /\ wrap_cfg' = RunFolder(wrap_cfg)
    /\ pc' = "obj_record"
    /\ UNCHANGED <<subvars, cfgvars, runvars, fs, tensorboard, phase, runs, call_number,
                   output, batch, i, returned_results, dataset, step, cbvars,
                   acquisition_function,
                   asked, fresh>>

\* idealized_tc_observe(wrap_cfg) raising: nothing in obj or the driver catches it
RowSimulateFails ==
    /\ pc = "obj_eval"
    /\ ~wrap_test
    /\ nevals' = nevals + 1
    /\ nsim' = nsim + 1
    /\ wrap_cfg' = RunFolder(wrap_cfg)
    /\ pc' = "SimError"
    /\ UNCHANGED <<subvars, cfgvars, runvars, fs, tensorboard, phase, runs, call_number,
                   output, batch, i, real_result, returned_results, dataset,
                   step, cbvars, acquisition_function, asked, fresh>>

\* an evaluator that writes the ledger file once, after the last row of the batch
RowRecord_DeferredWrite ==
    /\ pc = "obj_record"
    /\ LET real_queries == [r \in 1..Len(batch) |-> rescale_inverse(batch[r], constraints)]
           tmp == join(direc, call_number)
           entry == LedgerEntry(tmp, real_queries[i + 1], real_result, constraints.order)
           out == SetKey(output, call_number, entry)
       IN /\ output' = out
          /\ fs' = IF i + 1 = Len(batch)
                   THEN [fs EXCEPT ![direc] =
                            [temp_dir(@, call_number) EXCEPT !.experiments = File(out)]]
                   ELSE fs
    /\ returned_results' = Append(returned_results, Flip(real_result))
    /\ i' = i + 1
    /\ pc' = "obj_loop"
    /\ UNCHANGED <<subvars, cfgvars, runvars, tensorboard, phase, runs, call_number, batch,
                   real_result, wrap_cfg, dataset, step, cbvars, acquisition_function,
                   nevals, nsim, asked, fresh>>

\* add_query_to_output(real_queries[i], real_result); returned_results.append
RowRecord ==
    /\ pc = "obj_record"
    /\ LET real_queries == [r \in 1..Len(batch) |-> rescale_inverse(batch[r], constraints)]
           tmp == join(direc, call_number)
           entry == LedgerEntry(tmp, real_queries[i + 1], real_result, constraints.order)
           out == SetKey(output, call_number, entry)
       IN /\ output' = out
          /\ fs' = [fs EXCEPT ![direc] =
                      [temp_dir(@, call_number) EXCEPT !.experiments = File(out)]]
    /\ returned_results' = Append(returned_results, Flip(real_result))
    /\ i' = i + 1
    /\ pc' = "obj_loop"
    /\ UNCHANGED <<subvars, cfgvars, runvars, tensorboard, phase, runs, call_number, batch,
                   real_result, wrap_cfg, dataset, step, cbvars,
                   acquisition_function, nevals, nsim, asked, fresh>>

\* return tf.constant(returned_results): the observer's data joins the dataset
ObjReturn ==
    /\ pc = "obj_loop"
    /\ i = Len(batch)
    /\ dataset' = dataset \o [r \in 1..Len(batch) |->
                                 [x |-> batch[r], y |-> returned_results[r]]]
    /\ batch' = <<>>
    /\ i' = 0
    /\ real_result' = 0
    /\ returned_results' = <<>>
    /\ wrap_cfg' = get_default_config
    /\ pc' = IF phase = "InitialDesign" THEN "kernel_check" ELSE "callback"
    /\ UNCHANGED <<subvars, cfgvars, runvars, fs, tensorboard, phase, runs, call_number,
                   output, step, cbvars,
                   acquisition_function, nevals, nsim, asked, fresh>>

(***************************************************************************)
(* run_bayesopt_exp, after the initial design.                             *)
(***************************************************************************)
\* the kernel chosen by name, else ValueError
KernelCheck ==
    /\ pc = "kernel_check"
    /\ pc' = IF kernel \in KnownKernels THEN "daf_check" ELSE "ConfigError"
    /\ UNCHANGED <<subvars, cfgvars, runvars, fs, tensorboard, phase, runs, objvars,
                   dataset, step, cbvars,
                   acquisition_function, nevals, nsim, asked, fresh>>

\* the acquisition function chosen by name, else ValueError; then the
\* callback is made (gp_model_callback_maker) and bo.optimize begins
DafCheck ==
    /\ pc = "daf_check"
    /\ IF daf \in KnownDafs
       THEN /\ pc' = "optimize"
            /\ phase' = "Adaptive"
            /\ fs' = [fs EXCEPT ![direc] = makedirs(@)]
            /\ call' = 0
            /\ ypred_list' = <<>>
            /\ ystd_list' = <<>>
            /\ acq_list' = <<>>
            /\ step' = 0
       ELSE /\ pc' = "ConfigError"
            /\ UNCHANGED <<phase, fs, cbvars, step>>
    /\ UNCHANGED <<subvars, cfgvars, runvars, tensorboard, runs, objvars, dataset,
                   acquisition_function, nevals, nsim, asked, fresh>>

\* a loop that leaves bo.optimize one step short
OptimizeDone_OneShort == step >= daf_steps - 1

\* bo.optimize(daf_steps, ...) has made all its steps
OptimizeDone == step = daf_steps

\* one step of bo.optimize: the rule picks one point and the observer is
\* called; what the rule then exposes as acquisition_function is its own matter
Acquire ==
    /\ pc = "optimize"
    /\ ~OptimizeDone
    /\ \E q \in QueryPoints(Len(constraints.order)) : batch' = <<q>>
    /\ \E f \in AcquisitionFunctions : acquisition_function' = f
    /\ i' = 0
    /\ returned_results' = <<>>
    /\ pc' = "obj_loop"
    /\ UNCHANGED <<subvars, cfgvars, runvars, fs, tensorboard, phase, runs, call_number,
                   output, real_result, wrap_cfg, dataset, step, cbvars, nevals,
                   nsim, asked, fresh>>

\* resolution of the grid the fields are computed on
nx1 == 100
nx2 == 102

\* a grid whose axes are the wrong way round
GridShape_Transposed(dimensions) ==
    IF dimensions = 1 THEN <<nx1>> ELSE <<nx2, nx1>>

\* the shape each field is reshaped to: (nx1,) in 1-D, (nx1, nx2) in 2-D
GridShape(dimensions) ==
    IF dimensions = 1 THEN <<nx1>> ELSE <<nx1, nx2>>

\* row k of x_input, as indices into x1 and x2: np.column_stack of
\* X1.flatten() and X2.flatten(), the mesh made with indexing="ij"
x_input(k, dimensions) ==
    IF dimensions = 1 THEN <<k>> ELSE <<k \div nx2, k % nx2>>

\* where element k of a flat array lands under numpy's reshape(shape)
reshape(k, shape) ==
    IF Len(shape) = 1 THEN <<k>> ELSE <<k \div shape[2], k % shape[2]>>

\* the rows of x_input that are followed through the reshape: the corners of
\* the grid and the rows either side of the first wrap
SampleRows(dimensions) ==
    IF dimensions = 1 THEN {0, nx1 - 1}
    ELSE {0, 1, nx2 - 1, nx2, nx1 * nx2 - 1}

\* a field over the grid: its shape, the value that stands for its contents,
\* and for each sampled row of x_input the cell its value lands in
Field(shape, v, dimensions) ==
    [shape |-> shape,
     fill |-> v,
     cells |-> [k \in SampleRows(dimensions) |->
                   [index |-> reshape(k, shape), point |-> x_input(k, dimensions)]]]

\* predict_y: the model's prediction stands for the data it was trained on
predict_y(data) == Len(data)

\* an acquisition field that calls the surface whether or not there is one
AcqField_NoGuard(f, shape, data, dimensions) ==
    Field(shape, Len(data), dimensions)

\* acq: the surface on the grid, or np.zeros of the grid's shape without one
AcqField(f, shape, data, dimensions) ==
    IF f # "None"
    THEN Field(shape, Len(data), dimensions)
    ELSE Field(shape, 0, dimensions)

\* a call axis that counts from zero
CallCoords_ZeroBased(n) == [c \in 1..n |-> c - 1]

\* the "call" coordinate: [x + 1 for x in range(len(ypred_list))]
CallCoords(n) == [c \in 1..n |-> c]

\* a list that keeps the newest record only
AppendRecord_Overwrite(list, rec) == <<rec>>

\* ypred_list.append, ystd_list.append, acq_list.append
AppendRecord(list, rec) == Append(list, rec)

\* a callback that leaves the snapshot out
SaveCheckpoint_Skip(n) == n

\* manager.save(): one more snapshot of the model written to direc
SaveCheckpoint(n) == n + 1

\* gp_model_callback: snapshot the model and, in 1-D and 2-D, append the
\* fields and rewrite gp_model_outputs.nc; the driver always passes acq_rule
Callback ==
    /\ pc = "callback"
    /\ call' = call + 1
    /\ LET dimensions == Len(constraints.order)
           shape == GridShape(dimensions)
           preds == AppendRecord(ypred_list,
                                 Field(shape, predict_y(dataset), dimensions))
           stds == AppendRecord(ystd_list,
                                Field(shape, predict_y(dataset), dimensions))
           acqs == AppendRecord(acq_list,
                                AcqField(acquisition_function, shape, dataset,
                                         dimensions))
           nc == [call |-> CallCoords(Len(preds)),
                  x |-> [j \in 1..dimensions |->
                            [n |-> shape[j],
                             units |-> ConstraintUnits(constraints.order[j])]],
                  ypred |-> preds,
                  ystd |-> stds,
                  acq |-> acqs]
       IN IF dimensions \in {1, 2}
          THEN /\ ypred_list' = preds
               /\ ystd_list' = stds
               /\ acq_list' = acqs
               /\ fs' = [fs EXCEPT ![direc].checkpoints = SaveCheckpoint(@),
                                   ![direc].gp_model_outputs = File(nc)]
          ELSE /\ UNCHANGED <<ypred_list, ystd_list, acq_list>>
               /\ fs' = [fs EXCEPT ![direc].checkpoints = SaveCheckpoint(@)]
    /\ IF gp_model_callback_return
       THEN pc' = "stopped" /\ step' = step
       ELSE pc' = "optimize" /\ step' = step + 1
    /\ UNCHANGED <<subvars, cfgvars, runvars, tensorboard, phase, runs, objvars, dataset,
                   acquisition_function, nevals, nsim, asked, fresh>>

\* results that keep the optimizer's sign
ResultRows_NoFlip(data, cons) ==
    [c \in 1..Len(data) |-> [x |-> rescale_inverse(data[c].x, cons), y |-> data[c].y]]

\* results that leave out the first observation
ResultRows_DropFirst(data, cons) ==
    [c \in 1..(Len(data) - 1) |->
        [x |-> rescale_inverse(data[c + 1].x, cons), y |-> 0 - data[c + 1].y]]

\* the rows save_results writes: physical inputs and the sign-corrected outcome
ResultRows(data, cons) ==
    [c \in 1..Len(data) |->
        [x |-> rescale_inverse(data[c].x, cons), y |-> Flip(data[c].y)]]

\* bo.optimize is over: save_results (the plots are a collaborator's)
Finish ==
    /\ \/ pc = "optimize" /\ OptimizeDone
       \/ pc = "stopped"
    /\ fs' = [fs EXCEPT ![direc].results = File(ResultRows(dataset, constraints))]
    /\ pc' = "Finished"
    /\ phase' = "Finished"
    /\ UNCHANGED <<subvars, cfgvars, runvars, tensorboard, runs, objvars, dataset, step,
                   cbvars, acquisition_function, nevals, nsim, asked, fresh>>

Next ==
    \/ \E i_steps \in 1..MaxInit, d_steps \in 0..MaxDaf : Start(i_steps, d_steps)
    \/ RowBegin
    \/ RowStandIn
    \/ RowSimulate
    \/ RowSimulateFails
    \/ RowRecord
    \/ ObjReturn
    \/ KernelCheck
    \/ DafCheck
    \/ Acquire
    \/ Callback
    \/ Finish

Spec == Init /\ [][Next]_vars

(***************************************************************************)
(* Properties.                                                             *)
(***************************************************************************)
\* the experiment directory the resumability check looks at
CheckedDir == fs[join(EXP_PATH, exp_name)]
\* the experiment directory this invocation writes into
OutDir == fs[direc]
\* the ledger file of the output directory
LedgerFile == OutDir.experiments
\* rows whose observation has been recorded in this invocation
RowsDone == Len(dataset) + i

\* C1: when the kernel or acquisition name is unknown, the configuration
\* error is raised before the objective has been invoked even once: at that
\* moment no numbered working directory and no ledger entry exists.
C1_FailFast ==
    pc = "ConfigError" =>
        /\ nevals = 0
        /\ OutDir.exp_dirs = {}
        /\ ~LedgerFile.present

\* C2: an invocation that finds the experiment complete at entry returns
\* with zero objective evaluations and leaves the file system as it was: no
\* directory made, no run-config, ledger, checkpoint or results file written.
C2_CompleteAtEntryNoSideEffects ==
    [][ (runs' = runs + 1 /\ run_exists(exp_name, init_steps' + daf_steps'))
        => /\ pc' = "Exists"
           /\ fs' = fs
           /\ tensorboard' = tensorboard
           /\ nevals' = 0
           /\ nsim' = 0 ]_vars

\* an invocation has returned early from a complete experiment
C2_Witness ==
    /\ pc = "Exists"
    /\ runs = 2
    /\ OutDir.results.present

\* C3: run_exists(name, n) is true exactly when the directory exists, holds
\* exactly n entries whose name starts with exp_, and holds experiments.json;
\* so it is false without the directory, without the ledger, and (n >= 1)
\* with 0, n - 1 or n + 1 numbered subdirectories.
C3_RunExistsIff ==
    \A n \in 0..(MaxInit + MaxDaf + 1) :
        /\ run_exists(exp_name, n) <=>
              /\ CheckedDir.exists
              /\ Cardinality(CheckedDir.exp_dirs) = n
              /\ CheckedDir.experiments.present
        /\ (n >= 1 /\ Cardinality(CheckedDir.exp_dirs) \in {0, n - 1, n + 1})
              => ~run_exists(exp_name, n)

\* the check has answered true for a directory of two numbered subdirectories
C3_Witness ==
    /\ pc = "Exists"
    /\ Cardinality(CheckedDir.exp_dirs) = 2
    /\ run_exists(exp_name, 2)
    /\ ~run_exists(exp_name, 1)
    /\ ~run_exists(exp_name, 3)

\* C4: in one invocation, after any number of evaluated rows, the keys of
\* the ledger are exactly 0..k-1 for the k rows recorded so far, in the
\* evaluator's dictionary and, from the first write on, in experiments.json;
\* the counter is the last key, or the next one while a row is in progress.
C4_LedgerKeysContiguous ==
    /\ DOMAIN output = 0..(RowsDone - 1)
    /\ call_number \in {RowsDone - 1, RowsDone}
    /\ (call_number = RowsDone) <=> (pc \in {"obj_eval", "obj_record", "SimError"})
    /\ RowsDone >= 1 => /\ LedgerFile.present
                        /\ DOMAIN LedgerFile.content = 0..(RowsDone - 1)

\* three rows recorded: an initial batch of two and one adaptive call
C4_Witness ==
    /\ pc = "callback"
    /\ RowsDone = 3
    /\ DOMAIN output = {0, 1, 2}

\* C5: an invocation that began on an empty output directory and reached
\* Finished leaves init_steps + daf_steps ledger entries, as many numbered
\* working directories, and a results file of as many rows.
C5_FinishedCounts ==
    (pc = "Finished" /\ fresh) =>
        /\ LedgerFile.present
        /\ Cardinality(DOMAIN LedgerFile.content) = init_steps + daf_steps
        /\ Cardinality(OutDir.exp_dirs) = init_steps + daf_steps
        /\ OutDir.results.present
        /\ Len(OutDir.results.content) = init_steps + daf_steps

\* a finished invocation of two initial points and one adaptive step
C5_Witness ==
    /\ pc = "Finished"
    /\ fresh
    /\ init_steps = 2
    /\ daf_steps = 1
    /\ Len(OutDir.results.content) = 3

\* C6: every entry of the ledger, in the evaluator's dictionary and in the
\* ledger files, has the key "res", the key "" of the artifact directory and
\* one key per name of constraints.order, for orders of length 1, 2 and 3.
C6_EntryKeys ==
    LET Keys == {"", "res"} \cup Range(constraints.order)
        Complete(map) == \A n \in DOMAIN map : Keys \subseteq DOMAIN map[n]
    IN /\ Complete(output)
       /\ \A p \in DOMAIN fs : Complete(fs[p].experiments.content)

\* a ledger of two entries under the three-name order
C6_Witness ==
    /\ Len(constraints.order) = 3
    /\ LedgerFile.present
    /\ Cardinality(DOMAIN LedgerFile.content) = 2
    /\ DOMAIN LedgerFile.content[1] = {"", "res", "angle", "trans_speed", "displacement"}

\* C7: with wrap_test set no row, initial or adaptive, invokes the simulator,
\* and every recorded outcome is at most the clip value 10.
C7_DryRun ==
    wrap_test =>
        /\ nsim = 0
        /\ real_result <= StandInClip
        /\ \A n \in DOMAIN output : output[n]["res"] <= StandInClip
        /\ \A p \in DOMAIN fs : \A n \in DOMAIN fs[p].experiments.content :
              fs[p].experiments.content[n]["res"] <= StandInClip

\* a dry run in its adaptive phase whose adaptive row drew a clipped outcome
C7_Witness ==
    /\ wrap_test
    /\ pc = "callback"
    /\ nevals = 3
    /\ output[2]["res"] = StandInClip
    /\ output[0]["res"] < StandInClip

\* C9: the value the evaluator hands to the optimizer for call n is the
\* negative of the ledger's "res" of call n, and in a completed invocation
\* the results file's y of call n equals the ledger's "res" of call n.
C9_SignFlippedOnce ==
    /\ \A r \in 1..Len(dataset) : dataset[r].y = 0 - output[r - 1]["res"]
    /\ \A r \in 1..Len(returned_results) :
          returned_results[r] = 0 - output[Len(dataset) + r - 1]["res"]
    /\ pc = "Finished" =>
          /\ Len(OutDir.results.content) = Cardinality(DOMAIN LedgerFile.content)
          /\ \A r \in 1..Len(OutDir.results.content) :
                OutDir.results.content[r].y = LedgerFile.content[r - 1]["res"]

\* a completed invocation of three calls with different outcomes
C9_Witness ==
    /\ pc = "Finished"
    /\ Len(OutDir.results.content) = 3
    /\ OutDir.results.content[1].y # OutDir.results.content[2].y
    /\ OutDir.results.content[3].y > 0

\* C10 as claimed: when the simulator fails at a row, no later row is
\* evaluated, the ledger holds exactly the rows before it, the counter is
\* incremented and the row's directory made, and the directory tree has one
\* more entry than the ledger (read as the dictionary or as the file);
\* looked at for known kernel and acquisition names only.
C10_AsClaimed ==
    (pc = "SimError" /\ kernel \in KnownKernels /\ daf \in KnownDafs) =>
        /\ DOMAIN output = 0..(RowsDone - 1)
        /\ nevals = RowsDone + 1
        /\ call_number = RowsDone
        /\ call_number \in OutDir.exp_dirs
        /\ \/ Cardinality(OutDir.exp_dirs) = Cardinality(DOMAIN output) + 1
           \/ Cardinality(OutDir.exp_dirs) = Cardinality(DOMAIN LedgerFile.content) + 1

\* C10 amended: when the simulator fails at a row, no later row is
\* evaluated, the evaluator's ledger holds exactly the rows before it, the
\* counter is incremented and the row's directory exists; in an invocation
\* that began on an empty output directory the ledger file holds the same
\* rows and the directory tree has exactly one more entry than the ledger.
C10_SimulatorFailure ==
    pc = "SimError" =>
        /\ DOMAIN output = 0..(RowsDone - 1)
        /\ nevals = RowsDone + 1
        /\ nsim = RowsDone + 1
        /\ call_number = RowsDone
        /\ call_number \in OutDir.exp_dirs
        /\ fresh =>
              /\ LedgerFile.content = output
              /\ LedgerFile.present <=> RowsDone >= 1
              /\ Cardinality(OutDir.exp_dirs) = Cardinality(DOMAIN output) + 1

\* the simulator failed at the second row of an initial batch of two
C10_Witness ==
    /\ pc = "SimError"
    /\ fresh
    /\ phase = "InitialDesign"
    /\ Len(batch) = 2
    /\ i = 1
    /\ OutDir.exp_dirs = {0, 1}
    /\ DOMAIN LedgerFile.content = {0}

\* C11: an invocation that finds the output directory holding only some of
\* the numbered subdirectories it expects is not taken as complete and starts
\* from scratch: the evaluator's counter and ledger start empty, the first
\* observation has call_number 0 and reuses exp_0000, and after each new
\* observation the ledger file holds exactly the observations of this run,
\* keyed 0.. and each pointing into this run's working directory.
C11_RestartFromScratch ==
    [][ /\ ( /\ runs' = runs + 1
             /\ OutDir.exists
             /\ OutDir.exp_dirs # {}
             /\ Cardinality(OutDir.exp_dirs) < init_steps' + daf_steps' )
           => /\ pc' = "obj_loop"
              /\ call_number' = -1
              /\ output' = EmptyMap
              /\ nevals' = 0
        /\ (~fresh /\ pc = "obj_loop" /\ pc' = "obj_eval" /\ nevals = 0)
           => /\ call_number' = 0
              /\ OutDir'.exp_dirs = OutDir.exp_dirs \cup {0}
        /\ (~fresh /\ pc = "obj_record" /\ pc' = "obj_loop")
           => /\ LedgerFile'.present
              /\ LedgerFile'.content = output'
              /\ DOMAIN LedgerFile'.content = 0..call_number
              /\ \A n \in DOMAIN LedgerFile'.content :
                    LedgerFile'.content[n][""] = join(direc, n)
      ]_vars

\* a second run that expects two directories, found one left by the first,
\* and has recorded its first observation under key 0 in the reused exp_0000
C11_Witness ==
    /\ runs = 2
    /\ ~fresh
    /\ init_steps + daf_steps = 2
    /\ pc = "obj_loop"
    /\ RowsDone = 1
    /\ OutDir.exp_dirs = {0}
    /\ DOMAIN LedgerFile.content = {0}

\* C12: the checkpoint callback never asks the loop to stop: the loop is
\* never left early, every adaptive call of the evaluator has a batch of
\* exactly one query, each is followed by one callback, and a run that
\* finishes has made exactly daf_steps adaptive evaluator calls.
C12_NeverStopsEarly ==
    /\ pc # "stopped"
    /\ (phase = "Adaptive" /\ pc \in {"obj_loop", "obj_eval", "obj_record"})
       => /\ Len(batch) = 1
          /\ call = step
          /\ Len(dataset) = init_steps + step
    /\ (phase = "Adaptive" /\ pc = "callback")
       => /\ call = step
          /\ Len(dataset) = init_steps + step + 1
    /\ (phase = "Adaptive" /\ pc = "optimize")
       => /\ call = step
          /\ step <= daf_steps
          /\ Len(dataset) = init_steps + step
    /\ pc = "Finished"
       => /\ step = daf_steps
          /\ call = daf_steps
          /\ Len(dataset) = init_steps + daf_steps

\* a finished run of two adaptive steps: two callbacks, both of which let the
\* loop go on
C12_Witness ==
    /\ pc = "Finished"
    /\ daf_steps = 2
    /\ call = 2
    /\ OutDir.checkpoints >= 2

\* C13: the driver goes through its phases in the order NotStarted,
\* InitialDesign, Adaptive, Finished (an invocation that finds the experiment
\* complete goes to Finished at once): the run-config file is on disk before
\* the first objective evaluation, only initial points are evaluated in the
\* initial design, the adaptive phase and the callback come only after all
\* init_steps initial points, and the results file is written only after the
\* last adaptive step.
C13_PhaseOrder ==
    /\ [] ( /\ nevals >= 1
               => /\ OutDir.bo_config.present
                  /\ OutDir.bo_config.content = cfg(init_steps, daf_steps)
            /\ phase = "InitialDesign" => (call_number < init_steps /\ call = 0)
            /\ phase = "Adaptive" => Len(dataset) >= init_steps )
    /\ [][ /\ phase' # phase
              => \/ runs' = runs + 1 /\ phase' \in {"InitialDesign", "Finished"}
                 \/ /\ phase = "InitialDesign"
                    /\ phase' = "Adaptive"
                    /\ Len(dataset) = init_steps
                 \/ /\ phase = "Adaptive"
                    /\ phase' = "Finished"
           /\ call' > call
              => (phase = "Adaptive" /\ Len(dataset) >= init_steps + 1)
           /\ OutDir'.results # OutDir.results
              => /\ phase = "Adaptive"
                 /\ phase' = "Finished"
                 /\ step = daf_steps
                 /\ Len(dataset) = init_steps + daf_steps
         ]_vars

\* a run that went through all phases: run-config, initial design, at least
\* one adaptive step with its callback, then the results file
C13_Witness ==
    /\ phase = "Finished"
    /\ pc = "Finished"
    /\ daf_steps >= 1
    /\ call = daf_steps
    /\ OutDir.bo_config.present
    /\ OutDir.results.present

\* C14: the run-config file written at the start of a run records every
\* parameter the run was launched with: constraints, seed, profile name, init
\* and adaptive step counts, observation location, resolution, kernel,
\* acquisition choice and the dry-run flag.
C14_ConfigRecordsEveryParameter ==
    OutDir.bo_config.present
        => LET written == OutDir.bo_config.content
           IN /\ {"constraints", "seed", "profile_name", "init_steps",
                  "daf_steps", "obs_lon", "obs_lat", "resolution", "kernel",
                  "daf", "wrap_test"} \subseteq DOMAIN written
              /\ written.constraints = constraints
              /\ written.wrap_test = wrap_test
              /\ written.kernel = kernel
              /\ written.daf = daf

\* the checkpoint array file of the output directory
GpFile == OutDir.gp_model_outputs

\* the ledger key of the observation made in the step of record c: the model
\* of that record was trained on all observations up to and including it
StepKey(c) == GpFile.content.ypred[c].fill - 1

C16_NoSurfaceZeroField ==
    [][ ( /\ pc = "callback"
          /\ acquisition_function = "None"
          /\ Len(constraints.order) \in {1, 2} )
        => /\ Len(acq_list') = Len(acq_list) + 1
           /\ acq_list'[Len(acq_list')].fill = 0
           /\ acq_list'[Len(acq_list')].shape =
                 (IF Len(constraints.order) = 1 THEN <<nx1>> ELSE <<nx1, nx2>>)
           /\ GpFile'.present
           /\ GpFile'.content.acq = acq_list'
           /\ Len(GpFile'.content.ypred) = call'
           /\ Len(GpFile'.content.ystd) = call'
           /\ Len(GpFile'.content.acq) = call'
           /\ pc' = "optimize"
           /\ step' = step + 1
      ]_vars

\* a 2-D run just after a callback that found no surface: the newest acq
\* record is the zero field and the loop is back in bo.optimize
C16_Witness ==
    /\ pc = "optimize"
    /\ call >= 1
    /\ acquisition_function = "None"
    /\ Len(constraints.order) = 2
    /\ GpFile.present
    /\ Len(GpFile.content.acq) = call
    /\ GpFile.content.acq[call].fill = 0
    /\ GpFile.content.ypred[call].fill # 0

\* C17: in a 1-D run the checkpoint array's axis x1 has exactly 100 points
\* and the units of the first dimension of the order; in a 2-D run x1 has 100
\* points and the units of order[0], x2 has 102 points and the units of
\* order[1], and every recorded field has shape (calls, 100, 102) with x1
\* the first spatial axis: the value at grid point (x1[a], x2[b]) is in cell
\* [a][b].
C17_GridAxes ==
    (call >= 1 /\ Len(constraints.order) \in {1, 2})
        => LET nc == GpFile.content
               dimensions == Len(constraints.order)
               Fields == {nc.ypred, nc.ystd, nc.acq}
           IN /\ DOMAIN nc.x = 1..dimensions
              /\ nc.x[1].n = 100
              /\ nc.x[1].units = ConstraintUnits(constraints.order[1])
              /\ dimensions = 2
                 => /\ nc.x[2].n = 102
                    /\ nc.x[2].units = ConstraintUnits(constraints.order[2])
              /\ \A f \in Fields :
                    /\ Len(f) = call
                    /\ \A c \in 1..call :
                          /\ f[c].shape =
                                (IF dimensions = 1 THEN <<100>> ELSE <<100, 102>>)
                          /\ \A k \in DOMAIN f[c].cells :
                                f[c].cells[k].index = f[c].cells[k].point

\* a 2-D run with a record on disk: x1 in the units of angle, x2 of 102
\* points in the units of displacement, the last grid point in cell [99][101]
C17_Witness ==
    /\ call >= 1
    /\ constraints.order = <<"angle", "displacement">>
    /\ GpFile.present
    /\ GpFile.content.x[1].units = "degrees"
    /\ GpFile.content.x[2].n = 102
    /\ GpFile.content.x[2].units = "degrees_east"
    /\ GpFile.content.ypred[1].cells[100 * 102 - 1].index = <<99, 101>>

\* the normalised query of the row recorded under ledger key n in this run
QueryOf(n) ==
    IF n < Len(dataset) THEN dataset[n + 1].x ELSE batch[n - Len(dataset) + 1]

\* C18: every ledger entry records, for each name of constraints.order, the
\* affine image min_j + x[j] * (max_j - min_j) of the row's normalised query,
\* j following the order; with angle in [-80, 80], trans_speed in [0, 15] and
\* displacement in [-2, 2], the query [0.5, 0.5, 0.5] is recorded as angle
\* 0.0, trans_speed 7.5, displacement 0.0 (x in halves, values in tenths).
C18_LedgerRescaled ==
    \A n \in DOMAIN output :
        /\ LedgerFile.content[n] = output[n]
        /\ \A j \in 1..Len(constraints.order) :
              LET name == constraints.order[j]
              IN 2 * output[n][name] =
                    2 * ConstraintMin(name)
                    + QueryOf(n)[j] * (ConstraintMax(name) - ConstraintMin(name))
        /\ (Len(constraints.order) = 3 /\ QueryOf(n) = <<1, 1, 1>>)
           => /\ output[n]["angle"] = 0
              /\ output[n]["trans_speed"] = 75
              /\ output[n]["displacement"] = 0

\* a 3-D run whose ledger holds the centre of the box and the staircase
\* (0, 0.5, 1): angle -80, trans_speed 7.5, displacement 2
C18_Witness ==
    /\ constraints.order = <<"angle", "trans_speed", "displacement">>
    /\ \E n \in DOMAIN output :
          /\ QueryOf(n) = <<1, 1, 1>>
          /\ LedgerFile.content[n]["trans_speed"] = 75
    /\ \E n \in DOMAIN output :
          /\ QueryOf(n) = <<0, 1, 2>>
          /\ LedgerFile.content[n]["angle"] = -800
          /\ LedgerFile.content[n]["displacement"] = 20

\* C19: within a batch the evaluator takes the rows one after another: a
\* row's working directory is allocated and its objective invoked only when
\* every earlier row's objective has completed and its observation is in the
\* rewritten ledger file, the ledger is rewritten with a row's observation
\* right after its objective completes, and when the evaluator returns every
\* row of the batch has a ledger entry.
C19_RowsInSequence ==
    LET recorded == DOMAIN LedgerFile.content
        InLedger(k) == /\ DOMAIN output = 0..(k - 1)
                       /\ k >= 1 => (LedgerFile.present /\ LedgerFile.content = output)
    IN /\ pc = "obj_eval"
          => /\ InLedger(call_number)
             /\ nevals = call_number
             /\ i = call_number - Len(dataset)
             /\ fresh => OutDir.exp_dirs = 0..call_number
       /\ pc = "obj_record"
          => /\ InLedger(call_number)
             /\ nevals = call_number + 1
             /\ fresh => OutDir.exp_dirs = 0..call_number
       /\ pc = "obj_loop"
          => /\ InLedger(call_number + 1)
             /\ nevals = call_number + 1
             /\ i = call_number + 1 - Len(dataset)
             /\ fresh => OutDir.exp_dirs = 0..call_number
       /\ pc \in {"kernel_check", "callback"}
          => /\ recorded = 0..(Len(dataset) - 1)
             /\ \A n \in recorded : LedgerFile.content[n]["res"] = 0 - dataset[n + 1].y

\* the second row of a batch of two, its directory just allocated: the first
\* row's observation is already in the ledger file
C19_Witness ==
    /\ pc = "obj_eval"
    /\ fresh
    /\ Len(batch) = 2
    /\ i = 1
    /\ OutDir.exp_dirs = {0, 1}
    /\ DOMAIN LedgerFile.content = {0}

\* C20: the resumability check examines the directory the driver writes
\* into, whatever root_exp_direc is: after a run completed on an empty output
\* directory, a second invocation with the same arguments is recognised as
\* complete and evaluates nothing.
C20_SecondInvocationRecognised ==
    [][ ( /\ pc = "Finished"
          /\ fresh
          /\ runs' = runs + 1
          /\ init_steps' = init_steps
          /\ daf_steps' = daf_steps )
        => /\ pc' = "Exists"
           /\ nevals' = 0
           /\ fs' = fs
      ]_vars

\* C21: whatever the output directory held before, once run_bayesopt_exp has
\* run to completion under the default root, run_exists(exp_name, init_steps
\* + daf_steps) is true, so that an immediate second invocation with the same
\* configuration returns without evaluating anything.
C21_CompletedRunRecognised ==
    (pc = "Finished" /\ root_exp_direc = EXP_PATH)
        => run_exists(exp_name, init_steps + daf_steps)

\* C22: for every call n that is not a dry run, the directory the simulator
\* runs in and reads its output from (cfg.files.run_folder inside
\* idealized_tc_observe) is the numbered directory exp_n that obj allocated
\* and that the ledger records under "" for call n.
C22_SimulatorRunsInRowDirectory ==
    (pc = "obj_record" /\ ~wrap_test)
        => /\ wrap_cfg.files.run_folder[1] = direc
           /\ wrap_cfg.files.run_folder[2] = call_number

\* the inputs of the row obj is evaluating
RowInputs == Inputs(rescale_inverse(batch[i + 1], constraints), constraints.order)

\* C23: in the configuration obj builds for a row, displacement is never a
\* track entry of its own but sets impact_location to [obs_lon + displacement,
\* obs_lat]; trans_speed is written to translation_speed; every other input
\* is written to the track entry of its own name; and every track entry that
\* no input of this row wrote is the one of the base configuration.
C23_RowConfiguration ==
    pc = "obj_eval" =>
        /\ "displacement" \notin DOMAIN wrap_cfg.tc
        /\ "trans_speed" \notin DOMAIN wrap_cfg.tc
        /\ \A k \in DOMAIN RowInputs :
              IF k = "displacement"
              THEN /\ wrap_cfg.tc["impact_location"].from = "inputs"
                   /\ wrap_cfg.tc["impact_location"].value[1] =
                          [base |-> "NEW_ORLEANS.lon", plus |-> RowInputs[k]]
                   /\ wrap_cfg.tc["impact_location"].value[2] = "NEW_ORLEANS.lat"
              ELSE LET e == IF k = "trans_speed" THEN "translation_speed" ELSE k
                   IN /\ e \in DOMAIN wrap_cfg.tc
                      /\ wrap_cfg.tc[e].from = "inputs"
                      /\ wrap_cfg.tc[e].value = RowInputs[k]
        /\ \A e \in DOMAIN wrap_cfg.tc :
              (/\ e \notin DOMAIN RowInputs \cup {"profile_name", "impact_location"}
               /\ ~(e = "translation_speed" /\ "trans_speed" \in DOMAIN RowInputs))
                  => wrap_cfg.tc[e] = get_default_config.tc[e]

\* the second row of a batch over the three default inputs
C23_Witness ==
    /\ pc = "obj_eval"
    /\ i = 1
    /\ Len(constraints.order) = 3
    /\ wrap_cfg.tc["translation_speed"].from = "inputs"
    /\ wrap_cfg.tc["impact_location"].from = "inputs"

\* C24: in a 1-D or 2-D run, after the k-th invocation of the callback the
\* checkpoint array holds exactly k records with call coordinates 1..k, its
\* ypred, ystd and acq fields have length k on the call axis, and invocation
\* k leaves the records of invocations 1..k-1 as they were.
C24_CallAxisGrows ==
    /\ []( (call >= 1 /\ Len(constraints.order) \in {1, 2})
            => /\ GpFile.present
               /\ GpFile.content.call = [c \in 1..call |-> c]
               /\ Len(GpFile.content.ypred) = call
               /\ Len(GpFile.content.ystd) = call
               /\ Len(GpFile.content.acq) = call )
    /\ [][ (pc = "callback" /\ call >= 1 /\ Len(constraints.order) \in {1, 2})
           => \A c \in 1..call :
                 /\ GpFile'.content.call[c] = GpFile.content.call[c]
                 /\ GpFile'.content.ypred[c] = GpFile.content.ypred[c]
                 /\ GpFile'.content.ystd[c] = GpFile.content.ystd[c]
                 /\ GpFile'.content.acq[c] = GpFile.content.acq[c]
         ]_vars

\* a run whose callback has been invoked twice: two records on the call axis
C24_Witness ==
    /\ call = 2
    /\ Len(constraints.order) \in {1, 2}
    /\ GpFile.present
    /\ Len(GpFile.content.ypred) = 2
    /\ GpFile.content.call = <<1, 2>>

\* C25: in a 3-D run every invocation of the callback still writes a
\* snapshot of the model and returns false, but appends no prediction or
\* acquisition field and neither creates nor rewrites gp_model_outputs.nc.
C25_ThreeDimensionsNoArray ==
    /\ []( Len(constraints.order) = 3
            => /\ ~GpFile.present
               /\ ypred_list = <<>> /\ ystd_list = <<>> /\ acq_list = <<>> )
    /\ [][ (pc = "callback" /\ Len(constraints.order) = 3)
           => /\ OutDir'.checkpoints = OutDir.checkpoints + 1
              /\ GpFile' = GpFile
              /\ UNCHANGED <<ypred_list, ystd_list, acq_list>>
              /\ call' = call + 1
              /\ pc' = "optimize"
              /\ step' = step + 1
         ]_vars

\* a 3-D run after two invocations of the callback: two snapshots, no array
C25_Witness ==
    /\ Len(constraints.order) = 3
    /\ call = 2
    /\ OutDir.checkpoints >= 2
    /\ ~GpFile.present

(***************************************************************************)
(* idealized_tc_observe (adforce/wrap.py), statement by statement.  The    *)
(* forcing file, the slurm job and the mesh reader are collaborators: the  *)
(* job is a step that ends with maxele.63.nc in the run folder.            *)
(***************************************************************************)
MaxObsCalls == 2

\* cfg.adcirc.tide.value, cfg.adcirc.resolution.value, and the maximum the job
\* computes at the observation point (metres)
TideInputs == BOOLEAN
ResolutionInputs == {"low", "mid", "high"}
ElevationValues == {3, 7, 12}

\* the setup files in the order they are copied
SetupFiles == <<"fort.15", "fort.13", "fort.14">>

\* the steps of a call that returns, in the order of the code
StepOrder ==
    <<"check", "copy fort.15", "copy fort.13", "copy fort.14", "save_config",
      "create_fort22", "submit", "wait", "observe", "save_config">>

\* a check that lets the tide through
AssertOk_TideIgnored(c) == c.resolution = "mid"

\* assert tide.value == False; assert resolution.value == "mid"
AssertOk(c) == c.tide = FALSE /\ c.resolution = "mid"

\* idealized_tc_observe(cfg) is called
ObserveCall(t, r) ==
    /\ obs_pc \in {"idle", "returned", "AssertionError"}
    /\ obs_calls < MaxObsCalls
    /\ obs_calls' = obs_calls + 1
    /\ obs_cfg' = [tide |-> t, resolution |-> r, run_folder |-> "unset"]
    /\ trace' = <<>>
    /\ job' = "none"
    /\ maxele' = 0
    /\ obs_pc' = "run_folder"
    /\ UNCHANGED <<drivervars, bisvars, run_dir>>

\* cfg.files["run_folder"] = join(exp_path, name); os.makedirs(exist_ok=True)
ObserveRunFolder ==
    /\ obs_pc = "run_folder"
    /\ obs_cfg' = [obs_cfg EXCEPT !.run_folder = "exp_path/name"]
    /\ run_dir' = [run_dir EXCEPT !.exists = TRUE]
    /\ obs_pc' = "assert"
    /\ UNCHANGED <<drivervars, bisvars, job, maxele, trace, obs_calls>>

\* the two asserts: other options not yet implemented
ObserveAssert ==
    /\ obs_pc = "assert"
    /\ IF AssertOk(obs_cfg)
       THEN obs_pc' = "copy" /\ trace' = Append(trace, "check")
       ELSE obs_pc' = "AssertionError" /\ trace' = trace
    /\ UNCHANGED <<drivervars, bisvars, obs_cfg, run_dir, job, maxele, obs_calls>>

\* shutil.copy of fort.15, then fort.13, then fort.14
ObserveCopy ==
    /\ obs_pc = "copy"
    /\ LET file == SetupFiles[Len(trace)]
       IN /\ run_dir' = [run_dir EXCEPT !.files = @ \cup {file}]
          /\ trace' = Append(trace, "copy " \o file)
          /\ obs_pc' = IF Len(trace) = Len(SetupFiles) THEN "save_config" ELSE "copy"
    /\ UNCHANGED <<drivervars, bisvars, obs_cfg, job, maxele, obs_calls>>

\* save_config(cfg): config.yaml in the run folder, before the job and after
\* the observation
ObserveSaveConfig ==
    /\ obs_pc \in {"save_config", "save_again"}
    /\ run_dir' = [run_dir EXCEPT !.files = @ \cup {"config.yaml"}]
    /\ trace' = Append(trace, "save_config")
    /\ obs_pc' = IF obs_pc = "save_config" THEN "create_fort22" ELSE "plot"
    /\ UNCHANGED <<drivervars, bisvars, obs_cfg, job, maxele, obs_calls>>

\* create_fort22(run_folder, grid, tc)
ObserveCreateFort22 ==
    /\ obs_pc = "create_fort22"
    /\ run_dir' = [run_dir EXCEPT !.files = @ \cup {"fort.22"}]
    /\ trace' = Append(trace, "create_fort22")
    /\ obs_pc' = "submit"
    /\ UNCHANGED <<drivervars, bisvars, obs_cfg, job, maxele, obs_calls>>

\* setoff_slurm_job_and_wait: the job is submitted
ObserveSubmit ==
    /\ obs_pc = "submit"
    /\ job' = "running"
    /\ trace' = Append(trace, "submit")
    /\ obs_pc' = "wait"
    /\ UNCHANGED <<drivervars, bisvars, obs_cfg, run_dir, maxele, obs_calls>>

\* setoff_slurm_job_and_wait: the job ends and the call returns
ObserveJobDone(v) ==
    /\ obs_pc = "wait"
    /\ job' = "done"
    /\ run_dir' = [run_dir EXCEPT !.files = @ \cup {"maxele.63.nc"}, !.zeta_max = v]
    /\ trace' = Append(trace, "wait")
    /\ obs_pc' = "observe"
    /\ UNCHANGED <<drivervars, bisvars, obs_cfg, maxele, obs_calls>>

\* maxele = observe_max_point(cfg): read from run_folder/maxele.63.nc
ObserveMaxPoint ==
    /\ obs_pc = "observe"
    /\ maxele' = run_dir.zeta_max
    /\ trace' = Append(trace, "observe")
    /\ obs_pc' = "save_again"
    /\ UNCHANGED <<drivervars, bisvars, obs_cfg, run_dir, job, obs_calls>>

\* plot_heights_and_winds; return maxele
ObserveReturn ==
    /\ obs_pc = "plot"
    /\ obs_pc' = "returned"
    /\ UNCHANGED <<drivervars, bisvars, obs_cfg, run_dir, job, maxele, trace,
                   obs_calls>>

\* the driver at rest while idealized_tc_observe or bisection is looked at
DriverPinned ==
    /\ kernel = "Matern52"
    /\ daf = "mes"
    /\ wrap_test
    /\ root_exp_direc = EXP_PATH
    /\ Len(constraints.order) = 3

InitObserve == DriverInit /\ DriverPinned /\ ObserveIdle /\ BisectionIdle

NextObserve ==
    \/ \E t \in TideInputs, r \in ResolutionInputs : ObserveCall(t, r)
    \/ ObserveRunFolder
    \/ ObserveAssert
    \/ ObserveCopy
    \/ ObserveSaveConfig
    \/ ObserveCreateFort22
    \/ ObserveSubmit
    \/ \E v \in ElevationValues : ObserveJobDone(v)
    \/ ObserveMaxPoint
    \/ ObserveReturn

SpecObserve == InitObserve /\ [][NextObserve]_vars

\* s is an initial segment of t
IsPrefix(s, t) == Len(s) <= Len(t) /\ \A k \in 1..Len(s) : s[k] = t[k]

\* C26: idealized_tc_observe performs its steps in the fixed order check,
\* copy of the setup files, save_config, create_fort22, submit and wait,
\* observation, save_config; the outcome is read only after the job has
\* returned; and when tide is on or resolution is not mid the call fails
\* before any setup file is copied, any forcing file is created or any job
\* is submitted.
C26_FixedOrder ==
    /\ []( /\ IsPrefix(trace, StepOrder)
           /\ (obs_pc = "returned" => trace = StepOrder /\ maxele = run_dir.zeta_max)
           /\ (job = "running" => obs_pc = "wait")
           /\ (obs_pc \in {"save_again", "plot", "returned"} => job = "done")
           /\ (obs_pc = "AssertionError" => trace = <<>> /\ job = "none") )
    /\ [][ /\ (maxele' # maxele /\ obs_pc # "returned" /\ obs_pc # "AssertionError")
               => job = "done"
           /\ (obs_pc = "assert" /\ (obs_cfg.tide \/ obs_cfg.resolution # "mid"))
               => /\ obs_pc' = "AssertionError"
                  /\ run_dir' = run_dir
                  /\ job' = job
         ]_vars

\* a second call that failed its check in the folder a first call ran in
C26_Witness ==
    /\ obs_calls = 2
    /\ obs_pc = "AssertionError"
    /\ obs_cfg.tide
    /\ run_dir.files = {"fort.15", "fort.13", "fort.14", "config.yaml", "fort.22",
                        "maxele.63.nc"}

(***************************************************************************)
(* bisection (cle/find.py).  The floats are a grid of equally spaced       *)
(* representable numbers 0..MaxGrid, as the doubles of one binade are; tol *)
(* is counted in halves of the spacing, so that tol = 1 is a positive      *)
(* tolerance below the spacing.  f is linear: f(x) = slope * (2x - root2), *)
(* with its one root at root2 / 2, on the grid or half way between two     *)
(* neighbours.                                                             *)
(***************************************************************************)
MaxGrid == 4
MaxIter == 4

SlopeInputs == {-1, 1, 8}
TolInputs == {1, 2, 4}

\* f(x)
Apply(fn, x) == fn.slope * (2 * x - fn.root2)

\* |v|
Abs(v) == IF v < 0 THEN 0 - v ELSE v

\* (left + right) / 2 in floating point: exact when the sum is even, else
\* rounded to the neighbour with the even significand
Mid(l, r) ==
    IF (l + r) % 2 = 0 THEN (l + r) \div 2
    ELSE IF ((l + r - 1) \div 2) % 2 = 0 THEN (l + r - 1) \div 2
    ELSE (l + r + 1) \div 2

\* a test that never refuses
SameSign_Never(a, b) == FALSE

\* fleft * fright > 0
SameSign(a, b) == a * b > 0

\* while fleft * fright < 0 and right - left > tol
LoopCondition == fleft * fright < 0 /\ 2 * (right - left) > tol

InitBisection ==
    /\ DriverInit /\ DriverPinned /\ ObserveIdle
    /\ func \in [slope : SlopeInputs, root2 : 0..(2 * MaxGrid)]
    /\ left0 \in 0..MaxGrid
    /\ right0 \in 0..MaxGrid
    /\ tol \in TolInputs
    /\ left = left0
    /\ right = right0
    /\ fleft = 0
    /\ fright = 0
    /\ bis_pc = "start"
    /\ iters = 0
    /\ nf = 0
    /\ ret = [nan |-> FALSE, value |-> 0]

\* fleft = f(left); fright = f(right)
BisectionEnds ==
    /\ bis_pc = "start"
    /\ fleft' = Apply(func, left)
    /\ fright' = Apply(func, right)
    /\ nf' = nf + 2
    /\ bis_pc' = "check"
    /\ UNCHANGED <<drivervars, obsvars, func, left, right, tol, iters, ret, left0,
                   right0>>

\* if fleft * fright > 0: return np.nan
BisectionCheck ==
    /\ bis_pc = "check"
    /\ IF SameSign(fleft, fright)
       THEN ret' = [nan |-> TRUE, value |-> 0] /\ bis_pc' = "returned"
       ELSE ret' = ret /\ bis_pc' = "loop"
    /\ UNCHANGED <<drivervars, obsvars, func, left, right, tol, fleft, fright,
                   iters, nf, left0, right0>>

\* one pass of the while loop
BisectionIterate ==
    /\ bis_pc = "loop"
    /\ LoopCondition
    /\ iters < MaxIter
    /\ LET mid == Mid(left, right)
           fmid == Apply(func, mid)
       IN IF fleft * fmid < 0
          THEN right' = mid /\ fright' = fmid /\ UNCHANGED <<left, fleft>>
          ELSE left' = mid /\ fleft' = fmid /\ UNCHANGED <<right, fright>>
    /\ iters' = iters + 1
    /\ nf' = nf + 1
    /\ UNCHANGED <<drivervars, obsvars, func, tol, bis_pc, ret, left0, right0>>

\* return (left + right) / 2
BisectionReturn ==
    /\ bis_pc = "loop"
    /\ ~LoopCondition
    /\ ret' = [nan |-> FALSE, value |-> Mid(left, right)]
    /\ bis_pc' = "returned"
    /\ UNCHANGED <<drivervars, obsvars, func, left, right, tol, fleft, fright,
                   iters, nf, left0, right0>>

NextBisection ==
    \/ BisectionEnds
    \/ BisectionCheck
    \/ BisectionIterate
    \/ BisectionReturn

SpecBisection == InitBisection /\ [][NextBisection]_vars

\* C27: bisection called with f(left) and f(right) of opposite signs returns
\* an x such that |f(x)| < tol.
C27_ResidualBelowTol ==
    (bis_pc = "returned" /\ Apply(func, left0) * Apply(func, right0) < 0)
        => /\ ~ret.nan
           /\ 2 * Abs(Apply(func, ret.value)) < tol

\* C28: bisection with left < right, tol > 0 and f(left) * f(right) < 0
\* terminates: every pass of the loop leaves [left, right] inside the
\* initial interval and narrower than it was, with fleft and fright the
\* values of f at its endpoints (a pass that leaves the interval as it was,
\* the loop condition still true, is followed by the same pass for ever).
C28_EveryPassNarrows ==
    [][ iters' = iters + 1
        => /\ left0 <= left' /\ right' <= right0
           /\ right' - left' < right - left
           /\ fleft' = Apply(func, left') /\ fright' = Apply(func, right')
      ]_vars

\* C29: when f(left) * f(right) > 0, bisection returns NaN, having
\* evaluated f exactly twice and without a pass of the loop; it returns no
\* value inside the interval.
C29_SameSignNaN ==
    (bis_pc = "returned" /\ Apply(func, left0) * Apply(func, right0) > 0)
        => /\ ret.nan
           /\ nf = 2
           /\ iters = 0

\* both endpoints on the same side of the root, and NaN returned
C29_Witness ==
    /\ bis_pc = "returned"
    /\ left0 < right0
    /\ Apply(func, left0) > 0
    /\ Apply(func, right0) > 0
    /\ ret.nan
    /\ nf = 2

\* C30: for f with exactly one root r in [left, right] and f(left) *
\* f(right) <= 0, the value bisection returns is within tol of r, also when
\* a midpoint or an endpoint is exactly the root.
C30_WithinTolOfRoot ==
    ( /\ bis_pc = "returned"
      /\ left0 < right0
      /\ 2 * left0 <= func.root2 /\ func.root2 <= 2 * right0 )
        => /\ ~ret.nan
           /\ Abs(2 * ret.value - func.root2) <= tol

=============================================================================
